---- MODULE Spec2Model ----
(***************************************************************************)
(* A model of sam-converter: the name normalizer (converter.py), the       *)
(* directory converter (converter.py), the reference classifier and the    *)
(* source naming of the metadata writer and macro injector (extractor.py). *)
(*                                                                         *)
(* A Python str is modelled as a sequence of one-character strings, so     *)
(* that suffix tests, case conversion and the regular expressions of the   *)
(* code are computed character by character.                               *)
(***************************************************************************)
EXTENDS Integers, Sequences, FiniteSets, TLC

VARIABLES
    pc,             \* position of the harness / of main
    name,           \* Name Normalizer: the str handed to the function under test
    stripped,       \* strip_base_suffix(name)
    snake,          \* to_snake_case(name)
    snake_twice,    \* to_snake_case(to_snake_case(name))
    results,        \* list[ConversionResult]: the batch handed to categorize_refs
    categorized,    \* list[CategorizedRefs] returned by categorize_refs
    sql_files,      \* convert_directory: the files input_dir.rglob("*.sql") lists
    file_index,     \* convert_directory: index of the next file of the loop
    disk,           \* output directory: path of a .sql file -> its text
    sources_yml,    \* output directory: the document in sources.yml, or NoFile
    model_refs_yml, \* output directory: the document in model_refs.yml, or NoFile
    parsed,         \* extract_table_references: what sqlglot.parse gives for the sql
    extracted       \* extract_table_references: the list `tables` it returns

nameVars == <<name, stripped, snake, snake_twice>>
classifyVars == <<results, categorized>>
convertVars == <<sql_files, file_index>>
outputVars == <<disk, sources_yml, model_refs_yml>>
extractVars == <<parsed, extracted>>
vars == <<pc, nameVars, classifyVars, convertVars, outputVars, extractVars>>

-----------------------------------------------------------------------------
(* Characters and str methods                                              *)

UpperLetters == <<"A","B","C","D","E","F","G","H","I","J","K","L","M",
                  "N","O","P","Q","R","S","T","U","V","W","X","Y","Z">>
LowerLetters == <<"a","b","c","d","e","f","g","h","i","j","k","l","m",
                  "n","o","p","q","r","s","t","u","v","w","x","y","z">>
Digits == {"0","1","2","3","4","5","6","7","8","9"}

UpperSet == {UpperLetters[i] : i \in 1..26}
LowerSet == {LowerLetters[i] : i \in 1..26}

\* [A-Z], [a-z], [a-z0-9] and \w of the re module, on ASCII
IsUpperChar(c) == c \in UpperSet
IsLowerChar(c) == c \in LowerSet
IsLowerOrDigit(c) == c \in LowerSet \cup Digits
IsWordChar(c) == c \in UpperSet \cup LowerSet \cup Digits \cup {"_"}

LowerOfChar == [c \in UpperSet |-> LowerLetters[CHOOSE i \in 1..26 : UpperLetters[i] = c]]
UpperOfChar == [c \in LowerSet |-> UpperLetters[CHOOSE i \in 1..26 : LowerLetters[i] = c]]

\* str.lower() and str.upper()
lower(s) == [i \in 1..Len(s) |-> IF s[i] \in UpperSet THEN LowerOfChar[s[i]] ELSE s[i]]
upper(s) == [i \in 1..Len(s) |-> IF s[i] \in LowerSet THEN UpperOfChar[s[i]] ELSE s[i]]

\* str.endswith(suffix)
endswith(s, suffix) ==
    /\ Len(s) >= Len(suffix)
    /\ SubSeq(s, Len(s) - Len(suffix) + 1, Len(s)) = suffix

\* the literal "BASE" of the code
BASE == <<"B","A","S","E">>

\* a str that has not been computed, or a key that is left out
NoStr == <<"?">>
\* a metadata file that has not been written, and one that holds a document
NoFile == [written |-> FALSE, doc |-> <<>>]
Written(doc) == [written |-> TRUE, doc |-> doc]

-----------------------------------------------------------------------------
(* Name Normalizer: converter.py                                           *)

\* strip_base_suffix: name.upper().endswith("BASE") -> name[:-4]
strip_base_suffix(n) ==
    IF endswith(upper(n), BASE) THEN SubSeq(n, 1, Len(n) - 4) ELSE n

\* last index of the run [a-z]+ that starts at index i of s
RECURSIVE LowerRunEnd(_, _)
LowerRunEnd(s, i) ==
    IF i + 1 <= Len(s) /\ IsLowerChar(s[i + 1]) THEN LowerRunEnd(s, i + 1) ELSE i

\* re.sub('(.)([A-Z][a-z]+)', r'\1_\2', s), scanning from index i:
\* leftmost non-overlapping matches, [a-z]+ greedy
RECURSIVE SubWordStart(_, _)
SubWordStart(s, i) ==
    IF i > Len(s) THEN <<>>
    ELSE IF i + 2 <= Len(s) /\ IsUpperChar(s[i + 1]) /\ IsLowerChar(s[i + 2])
         THEN LET j == LowerRunEnd(s, i + 2)
              IN  <<s[i], "_">> \o SubSeq(s, i + 1, j) \o SubWordStart(s, j + 1)
         ELSE <<s[i]>> \o SubWordStart(s, i + 1)

\* re.sub('([a-z0-9])([A-Z])', r'\1_\2', s), scanning from index i
RECURSIVE SubLowerUpper(_, _)
SubLowerUpper(s, i) ==
    IF i > Len(s) THEN <<>>
    ELSE IF i + 1 <= Len(s) /\ IsLowerOrDigit(s[i]) /\ IsUpperChar(s[i + 1])
         THEN <<s[i], "_", s[i + 1]>> \o SubLowerUpper(s, i + 2)
         ELSE <<s[i]>> \o SubLowerUpper(s, i + 1)

\* mutant: to_snake_case without the final .lower()
to_snake_case_nolower(n) == SubLowerUpper(SubWordStart(n, 1), 1)

\* to_snake_case
to_snake_case(n) == lower(SubLowerUpper(SubWordStart(n, 1), 1))

-----------------------------------------------------------------------------
(* Reference Classifier: extractor.py                                      *)
(* TableRef         = [database, schema, table]                            *)
(* ConversionResult = [model_name, output_path, table_refs]                *)
(* CategorizedRefs  = [model_name, output_path, refs, sources]             *)

Range(f) == {f[i] : i \in DOMAIN f}

\* table_lower = strip_base_suffix(table_ref.table).lower()
table_lower_of(table_ref) == lower(strip_base_suffix(table_ref.table))

\* the keys of model_names = {r.model_name.lower(): r.model_name for r in results}
model_names_keys(rs) == {lower(rs[i].model_name) : i \in DOMAIN rs}

\* mutant: the lowercased name of the reference instead of model_names[table_lower]
model_names_get_key(rs, key) == key

\* model_names[key]: the dict comprehension keeps the value of the last
\* result that has the key
model_names_get(rs, key) ==
    LET last == CHOOSE i \in DOMAIN rs :
                    /\ lower(rs[i].model_name) = key
                    /\ \A j \in DOMAIN rs : lower(rs[j].model_name) = key => j <= i
    IN  rs[last].model_name

\* `table_ref.database or table_ref.schema`
is_qualified(table_ref) == table_ref.database # <<>> \/ table_ref.schema # <<>>

\* every table_ref of every result of the batch
all_table_refs(rs) == UNION {Range(rs[i].table_refs) : i \in DOMAIN rs}

\* model_qualifications, built by the first pass over the batch: for a key of
\* model_names, the lowercased (database, schema) of every qualified table_ref
\* with that key
model_qualifications(rs) ==
    [key \in model_names_keys(rs) |->
        {<<lower(t.database), lower(t.schema)>> :
            t \in {t2 \in all_table_refs(rs) :
                      table_lower_of(t2) = key /\ is_qualified(t2)}}]

\* mutant: without the `len(known_quals) > 1` test
is_likely_ref_no_conflict_test(table_ref, table_lower, quals) ==
    IF table_ref.database = <<>> /\ table_ref.schema = <<>> THEN TRUE
    ELSE LET ref_qual == <<lower(table_ref.database), lower(table_ref.schema)>>
             known_quals == IF table_lower \in DOMAIN quals THEN quals[table_lower] ELSE {}
         IN  IF known_quals = {} THEN TRUE
             ELSE ref_qual \in known_quals

\* mutant: without the shortcut for unqualified references
is_likely_ref_no_unqualified(table_ref, table_lower, quals) ==
    LET ref_qual == <<lower(table_ref.database), lower(table_ref.schema)>>
        known_quals == IF table_lower \in DOMAIN quals THEN quals[table_lower] ELSE {}
    IN  IF known_quals = {} THEN TRUE
        ELSE IF Cardinality(known_quals) > 1 THEN FALSE
        ELSE ref_qual \in known_quals

\* _is_likely_ref
is_likely_ref(table_ref, table_lower, quals) ==
    IF table_ref.database = <<>> /\ table_ref.schema = <<>> THEN TRUE
    ELSE LET ref_qual == <<lower(table_ref.database), lower(table_ref.schema)>>
             known_quals == IF table_lower \in DOMAIN quals THEN quals[table_lower] ELSE {}
         IN  IF known_quals = {} THEN TRUE
             ELSE IF Cardinality(known_quals) > 1 THEN FALSE
             ELSE ref_qual \in known_quals

\* mutant: without the test against the result's own model name
names_other_model_no_self_test(rs, result, table_lower) ==
    table_lower \in model_names_keys(rs)

\* `table_lower in model_names and table_lower != result.model_name.lower()`
names_other_model(rs, result, table_lower) ==
    /\ table_lower \in model_names_keys(rs)
    /\ table_lower # lower(result.model_name)

\* mutant: the final `else: sources.append(table_ref)` is missing
categorize_table_refs_drop(rs, result, quals, i) ==
    LET RECURSIVE loop(_)
        loop(k) ==
            IF k > Len(result.table_refs) THEN [refs |-> <<>>, sources |-> <<>>]
            ELSE LET table_ref == result.table_refs[k]
                     table_lower == table_lower_of(table_ref)
                     rest == loop(k + 1)
                 IN  IF names_other_model(rs, result, table_lower)
                     THEN IF is_likely_ref(table_ref, table_lower, quals)
                          THEN [rest EXCEPT !.refs = <<model_names_get(rs, table_lower)>> \o @]
                          ELSE [rest EXCEPT !.sources = <<table_ref>> \o @]
                     ELSE rest
    IN  loop(i)

\* the loop over result.table_refs, from index i on: the refs and sources
\* it appends, in order
RECURSIVE categorize_table_refs(_, _, _, _)
categorize_table_refs(rs, result, quals, i) ==
    IF i > Len(result.table_refs) THEN [refs |-> <<>>, sources |-> <<>>]
    ELSE LET table_ref == result.table_refs[i]
             table_lower == table_lower_of(table_ref)
             rest == categorize_table_refs(rs, result, quals, i + 1)
         IN  IF names_other_model(rs, result, table_lower)
             THEN IF is_likely_ref(table_ref, table_lower, quals)
                  THEN [rest EXCEPT !.refs = <<model_names_get(rs, table_lower)>> \o @]
                  ELSE [rest EXCEPT !.sources = <<table_ref>> \o @]
             ELSE [rest EXCEPT !.sources = <<table_ref>> \o @]

\* mutant: a result without table references yields no CategorizedRefs
categorize_refs_skip_empty(rs) ==
    LET quals == model_qualifications(rs)
        one(result) ==
            LET lists == categorize_table_refs(rs, result, quals, 1)
            IN  [model_name |-> result.model_name, output_path |-> result.output_path,
                 refs |-> lists.refs, sources |-> lists.sources]
        RECURSIVE loop(_)
        loop(k) == IF k > Len(rs) THEN <<>>
                   ELSE IF rs[k].table_refs = <<>> THEN loop(k + 1)
                   ELSE <<one(rs[k])>> \o loop(k + 1)
    IN  loop(1)

\* categorize_refs
categorize_refs(rs) ==
    LET quals == model_qualifications(rs)
    IN  [k \in 1..Len(rs) |->
            LET lists == categorize_table_refs(rs, rs[k], quals, 1)
            IN  [model_name |-> rs[k].model_name,
                 output_path |-> rs[k].output_path,
                 refs |-> lists.refs,
                 sources |-> lists.sources]]

-----------------------------------------------------------------------------
(* Reference Extractor: converter.py                                       *)
(* What sqlglot.parse gives is the record [raises, statements]; a          *)
(* statement is [none, ctes, tables]: whether it is None, the aliases of   *)
(* its exp.CTE nodes and its exp.Table nodes [name, db, catalog], each in  *)
(* the order of find_all; an absent alias or part is <<>>.                 *)

\* TableRef: the frozen dataclass, equal when the three fields are
TableRef(database, schema, table) ==
    [database |-> database, schema |-> schema, table |-> table]

NoParse == [raises |-> TRUE, statements |-> <<>>]

\* cte_names of a statement
cte_names(statement) ==
    {lower(statement.ctes[k]) : k \in {j \in DOMAIN statement.ctes : statement.ctes[j] # <<>>}}

\* mutant: no table is taken for a CTE
is_cte_never(statement, table_name) == FALSE

\* table_name.lower() in cte_names
is_cte(statement, table_name) == lower(table_name) \in cte_names(statement)

\* mutant: without the test `table_ref not in tables`
append_always(refs, table_ref) == Append(refs, table_ref)

\* if table_ref not in tables: tables.append(table_ref)
append_new(refs, table_ref) ==
    IF table_ref \in Range(refs) THEN refs ELSE Append(refs, table_ref)

\* TableRef(database=database_name or "", schema=schema_name or "", table=table_name)
table_ref_of(node) == TableRef(node.catalog, node.db, node.name)

\* the loop over statement.find_all(exp.Table), from node k on
RECURSIVE statement_tables(_, _, _)
statement_tables(statement, refs, k) ==
    IF k > Len(statement.tables) THEN refs
    ELSE LET node == statement.tables[k]
         IN  IF node.name = <<>> \/ is_cte(statement, node.name)
             THEN statement_tables(statement, refs, k + 1)
             ELSE statement_tables(statement, append_new(refs, table_ref_of(node)), k + 1)

\* the loop over parsed, from statement k on
RECURSIVE parsed_tables(_, _, _)
parsed_tables(statements, refs, k) ==
    IF k > Len(statements) THEN refs
    ELSE IF statements[k].none THEN parsed_tables(statements, refs, k + 1)
    ELSE parsed_tables(statements, statement_tables(statements[k], refs, 1), k + 1)

\* extract_table_references: the empty list when sqlglot.parse raises
extract_table_references(input) ==
    IF input.raises THEN <<>> ELSE parsed_tables(input.statements, <<>>, 1)

-----------------------------------------------------------------------------
(* File and Directory Converter: converter.py                              *)

\* filename_stem.split(".")[-1]: what follows the last dot
LastPart(stem) ==
    LET dots == {i \in DOMAIN stem : stem[i] = "."}
    IN  IF dots = {} THEN stem
        ELSE SubSeq(stem, (CHOOSE i \in dots : \A j \in dots : j <= i) + 1, Len(stem))

\* extract_model_name
extract_model_name(filename_stem) == strip_base_suffix(LastPart(filename_stem))

SqlSuffix == <<".","s","q","l">>

\* output_file = output_dir / f"{model_name}.sql", relative to output_dir
output_file_of(input_file) == extract_model_name(input_file.stem) \o SqlSuffix

\* the text transpile_tsql_to_snowflake returns for a file; the transpiler is
\* an external collaborator, the text stands for its output
converted_sql(input_file) == input_file.sql

\* convert_file, when no step raises: the ConversionResult it returns
convert_file(input_file, output_path) ==
    [model_name |-> extract_model_name(input_file.stem),
     output_path |-> output_path,
     table_refs |-> input_file.table_refs]

\* f[path] := text, for a function over paths
WriteText(f, path, text) ==
    [q \in DOMAIN f \cup {path} |-> IF q = path THEN text ELSE f[q]]

-----------------------------------------------------------------------------
(* Source/Ref Metadata Writer: extractor.py                                *)

\* ord() of the characters of identifiers and paths
Ord(c) ==
    IF c = "." THEN 46
    ELSE IF c \in Digits THEN 48 + (CHOOSE d \in 0..9 :
                 <<"0","1","2","3","4","5","6","7","8","9">>[d + 1] = c)
    ELSE IF c \in UpperSet THEN 64 + (CHOOSE i \in 1..26 : UpperLetters[i] = c)
    ELSE IF c = "_" THEN 95
    ELSE 96 + (CHOOSE i \in 1..26 : LowerLetters[i] = c)

\* a < b for two str: by code point, a proper prefix first
RECURSIVE StrLess(_, _)
StrLess(a, b) ==
    IF b = <<>> THEN FALSE
    ELSE IF a = <<>> THEN TRUE
    ELSE IF a[1] # b[1] THEN Ord(a[1]) < Ord(b[1])
    ELSE StrLess(Tail(a), Tail(b))

\* a < b for two (str, str) tuples
PairLess(a, b) == StrLess(a[1], b[1]) \/ (a[1] = b[1] /\ StrLess(a[2], b[2]))

\* sorted(S) for a set of str
RECURSIVE SortedStrs(_)
SortedStrs(S) ==
    IF S = {} THEN <<>>
    ELSE LET m == CHOOSE x \in S : \A y \in S : x = y \/ StrLess(x, y)
         IN  <<m>> \o SortedStrs(S \ {m})

\* sorted(S) for a set of (str, str) keys
RECURSIVE SortedPairs(_)
SortedPairs(S) ==
    IF S = {} THEN <<>>
    ELSE LET m == CHOOSE x \in S : \A y \in S : x = y \/ PairLess(x, y)
         IN  <<m>> \o SortedPairs(S \ {m})

\* sorted(l) for a list of str, duplicates kept
RECURSIVE SortedList(_)
SortedList(l) ==
    IF l = <<>> THEN <<>>
    ELSE LET rest == SortedList(Tail(l))
             before == SelectSeq(rest, LAMBDA x : StrLess(x, Head(l)))
             after == SelectSeq(rest, LAMBDA x : ~StrLess(x, Head(l)))
         IN  before \o <<Head(l)>> \o after

\* _is_mixed_case
is_mixed_case(n) == n # lower(n) /\ n # upper(n)

UnknownSource == <<"u","n","k","n","o","w","n","_","s","o","u","r","c","e">>

\* _build_source_name
build_source_name(db, schema) ==
    IF db # <<>> /\ schema # <<>> THEN lower(db \o <<"_">> \o schema)
    ELSE IF db # <<>> THEN lower(db)
    ELSE IF schema # <<>> THEN lower(schema)
    ELSE UnknownSource

\* _deduplicate_base_tables
deduplicate_base_tables(tables) == {t \in tables : ~endswith(t, BASE)}

\* every source of every model, in the order of the two loops
RECURSIVE all_sources(_)
all_sources(cats) ==
    IF cats = <<>> THEN <<>> ELSE Head(cats).sources \o all_sources(Tail(cats))

\* sources_by_key: lowercased (db, schema) -> the set of its table names
sources_by_key(cats) ==
    LET refs == all_sources(cats)
    IN  [key \in {<<lower(refs[i].database), lower(refs[i].schema)>> : i \in DOMAIN refs} |->
            {refs[i].table : i \in {j \in DOMAIN refs :
                <<lower(refs[j].database), lower(refs[j].schema)>> = key}}]

\* original_casing[key]: the (db, schema) of the first source with the key
original_casing(cats, key) ==
    LET refs == all_sources(cats)
        first == CHOOSE i \in DOMAIN refs :
                    /\ <<lower(refs[i].database), lower(refs[i].schema)>> = key
                    /\ \A j \in DOMAIN refs :
                          <<lower(refs[j].database), lower(refs[j].schema)>> = key => i <= j
    IN  <<refs[first].database, refs[first].schema>>

\* an entry of "tables": the name, and the identifier of a mixed-case table
\* (NoStr: the entry has no identifier)
table_entry(t) ==
    [name |-> IF is_mixed_case(t) THEN to_snake_case(t) ELSE t,
     identifier |-> IF is_mixed_case(t) THEN t ELSE NoStr]

\* the document extract_sources dumps into sources.yml: the list under
\* "sources" (database and schema are <<>> when the key is left out)
extract_sources(cats) ==
    LET by_key == sources_by_key(cats)
        keys == SortedPairs(DOMAIN by_key)
    IN  [k \in DOMAIN keys |->
            LET casing == original_casing(cats, keys[k])
                tables == SortedStrs(deduplicate_base_tables(by_key[keys[k]]))
            IN  [name |-> build_source_name(casing[1], casing[2]),
                 tables |-> [i \in DOMAIN tables |-> table_entry(tables[i])],
                 database |-> casing[1],
                 schema |-> casing[2]]]

\* mutant: depends_on without sorted()
RECURSIVE refs_list_unsorted(_)
refs_list_unsorted(cats) ==
    IF cats = <<>> THEN <<>>
    ELSE (IF Head(cats).refs # <<>>
          THEN <<[model |-> Head(cats).model_name,
                  depends_on |-> Head(cats).refs]>>
          ELSE <<>>) \o refs_list_unsorted(Tail(cats))

\* the list extract_refs collects under "model_refs"
RECURSIVE refs_list(_)
refs_list(cats) ==
    IF cats = <<>> THEN <<>>
    ELSE (IF Head(cats).refs # <<>>
          THEN <<[model |-> Head(cats).model_name,
                  depends_on |-> SortedList(Head(cats).refs)]>>
          ELSE <<>>) \o refs_list(Tail(cats))

\* extract_refs: model_refs.yml is written unless the list is empty
extract_refs(cats, old) ==
    IF refs_list(cats) = <<>> THEN old ELSE Written(refs_list(cats))

-----------------------------------------------------------------------------
(* Macro Injector: extractor.py                                            *)
(* The patterns the code hands to re.search and re.sub have one shape:     *)
(*   [lookbehinds] \b (\w+\.){qualifiers} literal \b [(?!\s*\()]            *)
(* matched with re.IGNORECASE. A pattern is the record                     *)
(*   [guarded, qualifiers, literal, nocall].                               *)

Pattern(guarded, qualifiers, literal, nocall) ==
    [guarded |-> guarded, qualifiers |-> qualifiers,
     literal |-> literal, nocall |-> nocall]

\* \w matches the character at index i of text
WordAt(text, i) == i \in DOMAIN text /\ IsWordChar(text[i])

\* \b matches before index i of text
BoundaryAt(text, i) == WordAt(text, i - 1) # WordAt(text, i)

\* the literal matches at index i, ignoring case
LiteralAt(text, i, literal) ==
    /\ i >= 1
    /\ i + Len(literal) - 1 <= Len(text)
    /\ lower(SubSeq(text, i, i + Len(literal) - 1)) = lower(literal)

\* the text before index i ends with the literal, ignoring case: (?<!...) fails
PrecededBy(text, i, literal) == LiteralAt(text, i - Len(literal), literal)

\* last index of the run \w+ that starts at index i
WordRunEnd(text, i) ==
    CHOOSE e \in i..Len(text) :
        ~WordAt(text, e + 1) /\ \A k \in (i + 1)..e : WordAt(text, k)

\* first index from i on that \s does not match
SkipSpace(text, i) ==
    CHOOSE k \in i..(Len(text) + 1) :
        /\ ~(k \in DOMAIN text /\ text[k] = " ")
        /\ \A m \in i..(k - 1) : text[m] = " "

\* (?!\s*\() holds at index i
NotCallAt(text, i) ==
    LET k == SkipSpace(text, i) IN ~(k \in DOMAIN text /\ text[k] = "(")

RefOpen == <<"r","e","f","(","'">>
SourceOpen == <<"s","o","u","r","c","e","(","'",","," ","'">>

\* index after n prefixes \w+\. read from index i, or 0 when they do not match
RECURSIVE AfterQualifiers(_, _, _)
AfterQualifiers(text, i, n) ==
    IF n = 0 THEN i
    ELSE IF ~WordAt(text, i) THEN 0
    ELSE LET e == WordRunEnd(text, i)
         IN  IF e + 1 \in DOMAIN text /\ text[e + 1] = "."
             THEN AfterQualifiers(text, e + 2, n - 1)
             ELSE 0

\* index after the match of the pattern that starts at index i, or 0
MatchEnd(text, i, pat) ==
    IF ~(BoundaryAt(text, i) /\ WordAt(text, i)) THEN 0
    ELSE IF pat.guarded /\ (PrecededBy(text, i, RefOpen) \/ PrecededBy(text, i, SourceOpen))
    THEN 0
    ELSE LET p == AfterQualifiers(text, i, pat.qualifiers)
             j == p + Len(pat.literal)
         IN  IF /\ p > 0
                /\ LiteralAt(text, p, pat.literal)
                /\ BoundaryAt(text, j)
                /\ (pat.nocall => NotCallAt(text, j))
             THEN j
             ELSE 0

\* re.search(pattern, text) finds a match
re_search(pat, text) == \E i \in DOMAIN text : MatchEnd(text, i, pat) > 0

\* re.sub(pattern, repl, text) from index i on: leftmost matches, not overlapping
RECURSIVE re_sub_from(_, _, _, _)
re_sub_from(pat, repl, text, i) ==
    LET starts == {m \in i..Len(text) : MatchEnd(text, m, pat) > 0}
    IN  IF starts = {} THEN SubSeq(text, i, Len(text))
        ELSE LET m == CHOOSE x \in starts : \A y \in starts : x <= y
             IN  SubSeq(text, i, m - 1) \o repl
                     \o re_sub_from(pat, repl, text, MatchEnd(text, m, pat))

re_sub(pat, repl, text) == re_sub_from(pat, repl, text, 1)

\* f"{{{{ ref('{model_name}') }}}}"
ref_macro(model_name) ==
    <<"{","{"," ","r","e","f","(","'">> \o model_name \o <<"'",")"," ","}","}">>

\* f"{{{{ source('{source_name}', '{table_name}') }}}}"
source_macro(source_name, table_name) ==
    <<"{","{"," ","s","o","u","r","c","e","(","'">> \o source_name
        \o <<"'",","," ","'">> \o table_name \o <<"'",")"," ","}","}">>

\* mutant: the unqualified patterns tried before the qualified ones
ref_patterns_bare_first(model_name) ==
    <<Pattern(TRUE, 0, model_name \o BASE, TRUE),
      Pattern(TRUE, 0, model_name, TRUE),
      Pattern(TRUE, 2, model_name \o BASE, TRUE),
      Pattern(TRUE, 2, model_name, TRUE),
      Pattern(TRUE, 1, model_name \o BASE, TRUE),
      Pattern(TRUE, 1, model_name, TRUE)>>

\* the six patterns of _replace_table_with_ref, in order
ref_patterns(model_name) ==
    <<Pattern(TRUE, 2, model_name \o BASE, TRUE),
      Pattern(TRUE, 2, model_name, TRUE),
      Pattern(TRUE, 1, model_name \o BASE, TRUE),
      Pattern(TRUE, 1, model_name, TRUE),
      Pattern(TRUE, 0, model_name \o BASE, TRUE),
      Pattern(TRUE, 0, model_name, TRUE)>>

\* re.sub with every pattern of the list in turn, from pattern k on
RECURSIVE sub_all(_, _, _, _)
sub_all(patterns, repl, sql, k) ==
    IF k > Len(patterns) THEN sql
    ELSE sub_all(patterns, repl, re_sub(patterns[k], repl, sql), k + 1)

\* _replace_table_with_ref
replace_table_with_ref(sql, model_name) ==
    sub_all(ref_patterns(model_name), ref_macro(model_name), sql, 1)

\* mutant: the unqualified pattern tried first
source_patterns_bare_first(table_ref) ==
    <<Pattern(FALSE, 0, table_ref.table, TRUE)>>
    \o (IF table_ref.database # <<>> /\ table_ref.schema # <<>>
        THEN <<Pattern(FALSE, 0, table_ref.database \o <<".">> \o table_ref.schema
                                    \o <<".">> \o table_ref.table, FALSE)>>
        ELSE <<>>)
    \o (IF table_ref.schema # <<>>
        THEN <<Pattern(FALSE, 0, table_ref.schema \o <<".">> \o table_ref.table, FALSE)>>
        ELSE <<>>)

\* the patterns of _replace_table_with_source, most specific first
source_patterns(table_ref) ==
    (IF table_ref.database # <<>> /\ table_ref.schema # <<>>
     THEN <<Pattern(FALSE, 0, table_ref.database \o <<".">> \o table_ref.schema
                                 \o <<".">> \o table_ref.table, FALSE)>>
     ELSE <<>>)
    \o (IF table_ref.schema # <<>>
        THEN <<Pattern(FALSE, 0, table_ref.schema \o <<".">> \o table_ref.table, FALSE)>>
        ELSE <<>>)
    \o <<Pattern(FALSE, 0, table_ref.table, TRUE)>>

\* re.sub with the first pattern of the list, from pattern k on, that matches
RECURSIVE sub_first(_, _, _, _)
sub_first(patterns, repl, sql, k) ==
    IF k > Len(patterns) THEN sql
    ELSE IF re_search(patterns[k], sql) THEN re_sub(patterns[k], repl, sql)
    ELSE sub_first(patterns, repl, sql, k + 1)

\* _replace_table_with_source
replace_table_with_source(sql, table_ref, source_name, table_name) ==
    sub_first(source_patterns(table_ref), source_macro(source_name, table_name), sql, 1)

\* all_sources_by_location[(db, schema)]: the tables of the sources at a location
all_sources_by_location(cats, db, schema) ==
    LET refs == all_sources(cats)
    IN  {refs[i].table : i \in {j \in DOMAIN refs :
                                   refs[j].database = db /\ refs[j].schema = schema}}

\* the values non_base_tables_lower can hold for a key: one entry per table
\* without the suffix; of several with one key, the set's iteration order,
\* which str hashing leaves open, decides which stays
non_base_candidates(tables, key) ==
    {strip_base_suffix(t) : t \in {t2 \in tables :
        ~endswith(t2, BASE) /\ lower(strip_base_suffix(t2)) = key}}

\* the dicts canonical_names the pre-pass can build: (db, schema, table) -> name
canonical_names_choices(cats) ==
    LET refs == all_sources(cats)
        keys == {<<refs[i].database, refs[i].schema, refs[i].table>> : i \in DOMAIN refs}
        locs == {<<refs[i].database, refs[i].schema,
                   lower(strip_base_suffix(refs[i].table))>> : i \in DOMAIN refs}
        cands(l) == non_base_candidates(all_sources_by_location(cats, l[1], l[2]), l[3])
        picks == {p \in [locs -> {strip_base_suffix(refs[i].table) : i \in DOMAIN refs}
                                    \cup {l[3] : l \in locs}] :
                     \A l \in locs : p[l] \in (IF cands(l) # {} THEN cands(l) ELSE {l[3]})}
    IN  {[k \in keys |->
            LET l == <<k[1], k[2], lower(strip_base_suffix(k[3]))>>
            IN  IF endswith(k[3], BASE) /\ cands(l) # {}
                THEN p[l]
                ELSE strip_base_suffix(k[3])] : p \in picks}

\* the placeholder arguments inject_dbt_macros computes for a source
source_name_of(source) == build_source_name(source.database, source.schema)
table_name_of(source, canonical_names) ==
    LET key == <<source.database, source.schema, source.table>>
        canonical_table == IF key \in DOMAIN canonical_names
                           THEN canonical_names[key]
                           ELSE strip_base_suffix(source.table)
    IN  IF is_mixed_case(canonical_table) THEN to_snake_case(canonical_table)
        ELSE canonical_table

\* `for ref_model in cat.refs`, from entry k on
RECURSIVE replace_refs(_, _, _)
replace_refs(sql, refs, k) ==
    IF k > Len(refs) THEN sql
    ELSE replace_refs(replace_table_with_ref(sql, refs[k]), refs, k + 1)

\* `for source in cat.sources`, from entry k on
RECURSIVE replace_sources(_, _, _, _)
replace_sources(sql, sources, canonical_names, k) ==
    IF k > Len(sources) THEN sql
    ELSE replace_sources(
             replace_table_with_source(sql, sources[k], source_name_of(sources[k]),
                                       table_name_of(sources[k], canonical_names)),
             sources, canonical_names, k + 1)

\* mutant: a missing file ends the loop
RECURSIVE inject_files_stop(_, _, _, _)
inject_files_stop(cats, canonical_names, files, k) ==
    IF k > Len(cats) THEN files
    ELSE LET cat == cats[k]
         IN  IF cat.output_path \notin DOMAIN files
             THEN files
             ELSE LET sql == replace_sources(replace_refs(files[cat.output_path], cat.refs, 1),
                                             cat.sources, canonical_names, 1)
                  IN  inject_files_stop(cats, canonical_names,
                                        WriteText(files, cat.output_path, sql), k + 1)

\* the loop over categorized of inject_dbt_macros, from model k on: the
\* output directory it leaves; a model whose file is missing is skipped
RECURSIVE inject_files(_, _, _, _)
inject_files(cats, canonical_names, files, k) ==
    IF k > Len(cats) THEN files
    ELSE LET cat == cats[k]
         IN  IF cat.output_path \notin DOMAIN files
             THEN inject_files(cats, canonical_names, files, k + 1)
             ELSE LET sql == replace_sources(replace_refs(files[cat.output_path], cat.refs, 1),
                                             cat.sources, canonical_names, 1)
                  IN  inject_files(cats, canonical_names,
                                   WriteText(files, cat.output_path, sql), k + 1)

-----------------------------------------------------------------------------
(* Inputs of the Name Normalizer                                           *)

\* longest stem drawn
MaxStem == 3

StemChars == {"P", "d", "E", "s", "2", "_"}

RECURSIVE StringsUpTo(_, _)
StringsUpTo(chars, n) ==
    IF n = 0 THEN {<<>>}
    ELSE LET shorter == StringsUpTo(chars, n - 1)
         IN  shorter \cup {Append(s, c) : s \in shorter, c \in chars}

Stems == StringsUpTo(StemChars, MaxStem)

\* the marker in its casings, placed before or after a stem
Markers == {<<>>, BASE, <<"b","a","s","e">>, <<"B","a","s","e">>}

NameInputs == {h \o s \o t : h \in {<<>>, BASE}, s \in Stems, t \in Markers}


-----------------------------------------------------------------------------
(* Inputs of the Reference Classifier                                      *)

\* most results in a batch
MaxResults == 2
\* most table references in a batch, all results together
MaxRefs == 3

\* model B is referenced as b and as BBASE; the model name BBASE keeps a
\* suffix after a single strip (file stem BBASEBASE)
ModelNames == {<<"a">>, <<"B">>, <<"B","B","A","S","E">>}

\* references to B: unqualified, under two casings of one (database, schema)
\* and under a schema-only qualification; references to a: unqualified and
\* qualified
TableRefs ==
    {TableRef(<<>>, <<>>, <<"B","B","A","S","E">>),
     TableRef(<<"D">>, <<"x">>, <<"b">>),
     TableRef(<<"d">>, <<"x">>, <<"B","B","A","S","E">>),
     TableRef(<<>>, <<"x">>, <<"b">>),
     TableRef(<<>>, <<>>, <<"a">>),
     TableRef(<<"D">>, <<"x">>, <<"a">>)}

\* The table_refs of result i, when the references `flat` of the whole batch
\* are dealt to the results in order (owner is nondecreasing)
RefsOwned(flat, owner, i) ==
    LET idx == {j \in DOMAIN flat : owner[j] = i}
    IN  IF idx = {} THEN <<>>
        ELSE SubSeq(flat, CHOOSE j \in idx : \A k \in idx : j <= k,
                          CHOOSE j \in idx : \A k \in idx : k <= j)

\* convert_file / convert_directory: output_file = output_dir / f"{model_name}.sql"
BuildBatch(names, flat, owner) ==
    [i \in DOMAIN names |->
        [model_name |-> names[i],
         output_path |-> names[i] \o SqlSuffix,
         table_refs |-> RefsOwned(flat, owner, i)]]

\* extract_table_references returns a list without duplicates
NoDuplicates(s) == \A i, j \in DOMAIN s : i < j => s[i] # s[j]

-----------------------------------------------------------------------------
(* Inputs of the pipeline                                                  *)

\* most files in the input directory
MaxFiles == 2

\* PdEs alone and behind a dotted prefix, Pd with the suffix, and a
\* lower-case name
FileStems ==
    {<<"P","d","E","s">>,
     <<"d",".","s",".","P","d","E","s">>,
     <<"E",".","s",".","P","d","B","A","S","E">>,
     <<"d","s">>}

\* what extract_table_references returns for a file: nothing, a bare
\* reference to Pd, or a qualified reference to PdEs
FileRefLists ==
    {<<>>,
     <<TableRef(<<>>, <<>>, <<"P","d">>)>>,
     <<TableRef(<<"D">>, <<"x">>, <<"P","d","E","s">>)>>}

\* a reference as it is written in SQL text: the non-empty parts, dotted
RefText(t) ==
    (IF t.database # <<>> THEN t.database \o <<".">> ELSE <<>>)
    \o (IF t.schema # <<>> THEN t.schema \o <<".">> ELSE <<>>)
    \o t.table

\* a text that mentions the references, each after a blank
RECURSIVE TextOf(_)
TextOf(refs) ==
    IF refs = <<>> THEN <<"F">>
    ELSE TextOf(SubSeq(refs, 1, Len(refs) - 1)) \o <<" ">> \o RefText(refs[Len(refs)])

\* transpiles: transpile_tsql_to_snowflake returns (TRUE) or raises (FALSE)
SqlFiles ==
    {[stem |-> st, transpiles |-> ok, table_refs |-> trs, sql |-> TextOf(trs)] :
        st \in FileStems, ok \in BOOLEAN, trs \in FileRefLists}

-----------------------------------------------------------------------------
(* Inputs of the Macro Injector                                            *)

\* most models in a categorized batch
MaxModels == 2
\* most sources in a batch, all models together
MaxSources == 3

\* mixed-case tables with and without an inner capital, a lower-case and an
\* upper-case table, a table with the suffix beside its sibling in two
\* casings; locations with both parts, in two casings, with a schema only and
\* with neither
InjectSources ==
    {TableRef(<<"D">>, <<"x">>, <<"P","d","E","s">>),
     TableRef(<<"d">>, <<"x">>, <<"d","s">>),
     TableRef(<<>>, <<"x">>, <<"D","S">>),
     TableRef(<<>>, <<>>, <<"P","d","E","s">>),
     TableRef(<<"D">>, <<"x">>, <<"P","d","B","A","S","E">>),
     TableRef(<<"D">>, <<"x">>, <<"P","d">>),
     TableRef(<<"D">>, <<"x">>, <<"P","D">>)}

\* the refs of a model: none, or the model ds
InjectRefs == {<<>>, <<<<"d","s">>>>}

\* the i-th model of a batch: m1, m2, ...
ModelNameAt(i) == <<"m", <<"1","2","3","4","5","6","7","8","9">>[i]>>

\* a model name as it is written in SQL text
BareRefs(refs) == [i \in DOMAIN refs |-> TableRef(<<>>, <<>>, refs[i])]

BuildCategorized(refs, flat, owner) ==
    [i \in DOMAIN refs |->
        [model_name |-> ModelNameAt(i),
         output_path |-> ModelNameAt(i) \o SqlSuffix,
         refs |-> refs[i],
         sources |-> RefsOwned(flat, owner, i)]]

\* the output directory: the file of every model that has one mentions the
\* sources of the model, fully written, and then its refs
BuildDisk(cats, present) ==
    [path \in {cats[i].output_path : i \in {j \in DOMAIN cats : present[j]}} |->
        LET i == CHOOSE j \in DOMAIN cats : cats[j].output_path = path
        IN  TextOf(cats[i].sources \o BareRefs(cats[i].refs))]

-----------------------------------------------------------------------------
(* Inputs of the rewriting of one file                                     *)

\* most words in the text of the file
MaxWords == 2

\* the refs of the model: ds, Pd, both, and ds twice (categorize_refs
\* appends the model name once per reference classified as a ref)
RewriteRefs ==
    {<<<<"d","s">>>>, <<<<"P","d">>>>, <<<<"d","s">>, <<"P","d">>>>,
     <<<<"d","s">>, <<"d","s">>>>}

\* words of a text: the names ds and Pd bare, qualified, with the suffix, in
\* other casings, inside longer words, and before an opening parenthesis
RefWords ==
    {<<"d","s">>, <<"D","S">>, <<"d","s","B","A","S","E">>,
     <<"x",".","d","s">>, <<"x",".","D","s","b","a","s","e">>,
     <<"D",".","x",".","d","s">>, <<"D",".","x",".","D","S","B","A","S","E">>,
     <<"x","d","s">>, <<"d","s","x">>, <<"d","s","_">>,
     <<"d","s","(">>, <<"d","s"," ","(">>, <<"x",".","d","s","(">>,
     <<"p","d">>, <<"D",".","x",".","P","D","B","A","S","E">>, <<"t">>}

\* the source of the model: with database and schema, with a schema, bare
RewriteSources ==
    {TableRef(<<"D">>, <<"x">>, <<"P","d","E","s">>),
     TableRef(<<>>, <<"x">>, <<"D","S">>),
     TableRef(<<>>, <<>>, <<"P","d","E","s">>)}

\* words of a text: the tables PdEs and DS in their three forms, in other
\* casings, behind other qualifiers, inside a longer word and before an
\* opening parenthesis
SourceWords ==
    {<<"D",".","x",".","P","d","E","s">>, <<"d",".","X",".","p","d","e","s">>,
     <<"x",".","P","d","E","s">>, <<"P","d","E","s">>, <<"P","d","E","s","x">>,
     <<"P","d","E","s","(">>, <<"E",".","x",".","P","d","E","s">>,
     <<"x",".","D","S">>, <<"d","s">>, <<"y",".","D","S">>, <<"t">>}

\* the model and the words of its file: refs with RefWords, or one source
\* with SourceWords
RewriteCases ==
    {[refs |-> refs, sources |-> <<>>, palette |-> RefWords] : refs \in RewriteRefs}
    \cup {[refs |-> <<>>, sources |-> <<src>>, palette |-> SourceWords] :
              src \in RewriteSources}

\* the words, each after a blank
RECURSIVE TextOfWords(_)
TextOfWords(words) ==
    IF words = <<>> THEN <<"F">>
    ELSE TextOfWords(SubSeq(words, 1, Len(words) - 1)) \o <<" ">> \o words[Len(words)]

-----------------------------------------------------------------------------
(* Inputs of the rewriting with overlapping refs                           *)

\* the refs of the model: names that hold one another (the files ds.sql,
\* ds_x.sql, t-ds.sql), in both orders, and a name twice
OverlapRefs ==
    {<<<<"d","s">>, <<"d","s">>>>,
     <<<<"d","s">>, <<"d","s","_","x">>>>,
     <<<<"d","s","_","x">>, <<"d","s">>>>,
     <<<<"d","s">>, <<"t","-","d","s">>>>,
     <<<<"t","-","d","s">>, <<"d","s">>>>,
     <<<<"t","-","d","s">>, <<"t","-","d","s">>>>}

\* words of a text: the names bare, quoted, qualified, with the suffix and
\* in another casing
OverlapWords ==
    {<<"d","s">>, <<"d","s","_","x">>, <<"t","-","d","s">>,
     <<"\"","t","-","d","s","\"">>, <<"T","-","D","S">>,
     <<"x",".","d","s","B","A","S","E">>, <<"D",".","x",".","d","s","_","x">>,
     <<"t">>}

-----------------------------------------------------------------------------
(* Inputs of the repeated injection                                        *)

\* most sources in a batch that is injected twice, all models together
MaxTwiceSources == 2

\* the models of the batch: each under its own output path, or all under
\* the path of the first (files whose stems give one model name)
TwiceCategorized(refs, flat, owner, shared) ==
    [i \in DOMAIN refs |->
        [model_name |-> ModelNameAt(IF shared THEN 1 ELSE i),
         output_path |-> ModelNameAt(IF shared THEN 1 ELSE i) \o SqlSuffix,
         refs |-> refs[i],
         sources |-> RefsOwned(flat, owner, i)]]

\* the output directory: under a path stands the text of the last model
\* that convert_directory wrote there
TwiceDisk(cats) ==
    [path \in {cats[i].output_path : i \in DOMAIN cats} |->
        LET at == {j \in DOMAIN cats : cats[j].output_path = path}
            i == CHOOSE j \in at : \A k \in at : k <= j
        IN  TextOf(cats[i].sources \o BareRefs(cats[i].refs))]

-----------------------------------------------------------------------------
(* Inputs of the Metadata Writer                                           *)

\* most refs of a model
MaxDepends == 2

\* the names a model depends on: code-point order puts B before a before zb
DependsNames == {<<"z","b">>, <<"a">>, <<"B">>}

\* model_refs.yml before the call: absent, or left by an earlier run
StaleRefsFile ==
    Written(<<[model |-> <<"o","l","d">>, depends_on |-> <<<<"a">>>>]>>)

-----------------------------------------------------------------------------
(* Inputs of the Reference Extractor                                       *)

\* most statements of an input
MaxStatements == 2
\* most exp.Table nodes of an input, all statements together
MaxNodes == 3

TableNode(catalog, db, table_name) == [name |-> table_name, db |-> db, catalog |-> catalog]

\* the tables c and t, bare, in another casing and qualified, and a node
\* without a name
TableNodes ==
    {TableNode(<<>>, <<>>, <<"c">>), TableNode(<<>>, <<>>, <<"C">>),
     TableNode(<<"D">>, <<"x">>, <<"c">>),
     TableNode(<<>>, <<>>, <<"t">>), TableNode(<<>>, <<>>, <<"T">>),
     TableNode(<<"D">>, <<"x">>, <<"t">>),
     TableNode(<<>>, <<>>, <<>>)}

\* a statement is None, has no CTE, or has the CTE C
StatementKinds ==
    {[none |-> TRUE, ctes |-> <<>>], [none |-> FALSE, ctes |-> <<>>],
     [none |-> FALSE, ctes |-> <<<<"C">>>>]}

\* the statements, when the nodes `flat` of the whole input are dealt to them
\* in order
BuildStatements(kinds, flat, owner) ==
    [i \in DOMAIN kinds |->
        [none |-> kinds[i].none, ctes |-> kinds[i].ctes,
         tables |-> RefsOwned(flat, owner, i)]]

-----------------------------------------------------------------------------
(* The variables a specification does not use keep these values            *)

NamesIdle ==
    /\ name = NoStr
    /\ stripped = NoStr
    /\ snake = NoStr
    /\ snake_twice = NoStr

ClassifyIdle ==
    /\ results = <<>>
    /\ categorized = <<>>

ConvertIdle ==
    /\ sql_files = <<>>
    /\ file_index = 1

OutputIdle ==
    /\ disk = <<>>
    /\ sources_yml = NoFile
    /\ model_refs_yml = NoFile

ExtractIdle ==
    /\ parsed = NoParse
    /\ extracted = <<>>

-----------------------------------------------------------------------------
(* SpecNames: the Name Normalizer functions applied to every input         *)

InitNames ==
    /\ pc = "name"
    /\ name \in NameInputs
    /\ stripped = NoStr
    /\ snake = NoStr
    /\ snake_twice = NoStr
    /\ ClassifyIdle
    /\ ConvertIdle
    /\ OutputIdle
    /\ ExtractIdle

StripBaseSuffix ==
    /\ pc = "name"
    /\ stripped' = strip_base_suffix(name)
    /\ pc' = "stripped"
    /\ UNCHANGED <<name, snake, snake_twice, classifyVars, convertVars, outputVars, extractVars>>

ToSnakeCase ==
    /\ pc = "name"
    /\ snake' = to_snake_case(name)
    /\ pc' = "snake"
    /\ UNCHANGED <<name, stripped, snake_twice, classifyVars, convertVars, outputVars, extractVars>>

ToSnakeCaseAgain ==
    /\ pc = "snake"
    /\ snake_twice' = to_snake_case(snake)
    /\ pc' = "snake_twice"
    /\ UNCHANGED <<name, stripped, snake, classifyVars, convertVars, outputVars, extractVars>>

NextNames == StripBaseSuffix \/ ToSnakeCase \/ ToSnakeCaseAgain

SpecNames == InitNames /\ [][NextNames]_vars

-----------------------------------------------------------------------------
(* SpecClassify: categorize_refs applied to every batch                    *)

InitClassify ==
    /\ pc = "results"
    /\ \E n \in 0..MaxResults, t \in 0..MaxRefs :
         \E names \in [1..n -> ModelNames], flat \in [1..t -> TableRefs],
            owner \in [1..t -> 1..n] :
             /\ \A j \in 1..t : j > 1 => owner[j - 1] <= owner[j]
             /\ results = BuildBatch(names, flat, owner)
             /\ \A i \in 1..n : NoDuplicates(results[i].table_refs)
    /\ categorized = <<>>
    /\ NamesIdle
    /\ ExtractIdle
    /\ ConvertIdle
    /\ OutputIdle

CategorizeRefs ==
    /\ pc = "results"
    /\ categorized' = categorize_refs(results)
    /\ pc' = "categorized"
    /\ UNCHANGED <<results, nameVars, extractVars, convertVars, outputVars>>

NextClassify == CategorizeRefs

SpecClassify == InitClassify /\ [][NextClassify]_vars

-----------------------------------------------------------------------------
(* Spec: main of cli.py on every input directory                           *)

Init ==
    /\ pc = "convert"
    /\ \E n \in 0..MaxFiles : sql_files \in [1..n -> SqlFiles]
    /\ file_index = 1
    /\ results = <<>>
    /\ categorized = <<>>
    /\ OutputIdle
    /\ NamesIdle
    /\ ExtractIdle

\* mutant: a file that fails ends the loop
ConvertFile_abort ==
    /\ pc = "convert"
    /\ file_index <= Len(sql_files)
    /\ LET input_file == sql_files[file_index]
           output_file == output_file_of(input_file)
       IN  IF input_file.transpiles
           THEN /\ results' = Append(results, convert_file(input_file, output_file))
                /\ disk' = WriteText(disk, output_file, converted_sql(input_file))
                /\ file_index' = file_index + 1
           ELSE /\ UNCHANGED <<results, disk>>
                /\ file_index' = Len(sql_files) + 1
    /\ UNCHANGED <<pc, sql_files, categorized, sources_yml, model_refs_yml, nameVars, extractVars>>

\* one pass of the loop of convert_directory: convert_file appends a result
\* and writes the output file, or raises and the file is skipped
ConvertFile ==
    /\ pc = "convert"
    /\ file_index <= Len(sql_files)
    /\ LET input_file == sql_files[file_index]
           output_file == output_file_of(input_file)
       IN  IF input_file.transpiles
           THEN /\ results' = Append(results, convert_file(input_file, output_file))
                /\ disk' = WriteText(disk, output_file, converted_sql(input_file))
           ELSE UNCHANGED <<results, disk>>
    /\ file_index' = file_index + 1
    /\ UNCHANGED <<pc, sql_files, categorized, sources_yml, model_refs_yml, nameVars, extractVars>>

\* mutant: convert_directory returns while files are left in the list
ConvertDirectoryReturn_early ==
    /\ pc = "convert"
    /\ pc' = "main"
    /\ UNCHANGED <<nameVars, extractVars, classifyVars, convertVars, outputVars>>

\* convert_directory returns: no file was listed, or the loop has ended
ConvertDirectoryReturn ==
    /\ pc = "convert"
    /\ file_index > Len(sql_files)
    /\ pc' = "main"
    /\ UNCHANGED <<nameVars, extractVars, classifyVars, convertVars, outputVars>>

\* mutant: without the test `if results:`
MainCategorize_always ==
    /\ pc = "main"
    /\ categorized' = categorize_refs(results)
    /\ pc' = "extract_sources"
    /\ UNCHANGED <<results, nameVars, extractVars, convertVars, outputVars>>

\* main, `if results:` categorized = categorize_refs(results)
MainCategorize ==
    /\ pc = "main"
    /\ results # <<>>
    /\ categorized' = categorize_refs(results)
    /\ pc' = "extract_sources"
    /\ UNCHANGED <<results, nameVars, extractVars, convertVars, outputVars>>

\* main: extract_sources(categorized, output)
MainExtractSources ==
    /\ pc = "extract_sources"
    /\ sources_yml' = Written(extract_sources(categorized))
    /\ pc' = "extract_refs"
    /\ UNCHANGED <<disk, model_refs_yml, nameVars, extractVars, classifyVars, convertVars>>

\* main: extract_refs(categorized, output), then the summary is logged
MainExtractRefs ==
    /\ pc = "extract_refs"
    /\ model_refs_yml' = extract_refs(categorized, model_refs_yml)
    /\ pc' = "done"
    /\ UNCHANGED <<disk, sources_yml, nameVars, extractVars, classifyVars, convertVars>>

\* main, `else:` the warning "No files were converted."
MainNoFiles ==
    /\ pc = "main"
    /\ results = <<>>
    /\ pc' = "warned"
    /\ UNCHANGED <<nameVars, extractVars, classifyVars, convertVars, outputVars>>

Next ==
    \/ ConvertFile
    \/ ConvertDirectoryReturn
    \/ MainCategorize
    \/ MainExtractSources
    \/ MainExtractRefs
    \/ MainNoFiles

Spec == Init /\ [][Next]_vars

\* main runs in one thread: the pass over the next file of the list, the
\* return after the last and the warning are taken when they can be
FairSpec ==
    Spec /\ WF_vars(ConvertFile) /\ WF_vars(ConvertDirectoryReturn) /\ WF_vars(MainNoFiles)

-----------------------------------------------------------------------------
(* SpecInject: extract_sources and inject_dbt_macros on every categorized  *)
(* batch and output directory                                              *)

InitInject ==
    /\ pc = "categorized"
    /\ \E n \in 0..MaxModels, t \in 0..MaxSources :
         \E refs \in [1..n -> InjectRefs], present \in [1..n -> BOOLEAN],
            flat \in [1..t -> InjectSources], owner \in [1..t -> 1..n] :
             /\ \A j \in 1..t : j > 1 => owner[j - 1] <= owner[j]
             /\ categorized = BuildCategorized(refs, flat, owner)
             /\ \A i \in 1..n : NoDuplicates(categorized[i].sources)
             /\ disk = BuildDisk(categorized, present)
    /\ results = <<>>
    /\ sources_yml = NoFile
    /\ model_refs_yml = NoFile
    /\ NamesIdle
    /\ ExtractIdle
    /\ ConvertIdle

\* extract_sources(categorized, output_dir)
ExtractSources ==
    /\ pc = "categorized"
    /\ sources_yml' = Written(extract_sources(categorized))
    /\ pc' = "sources_written"
    /\ UNCHANGED <<disk, model_refs_yml, nameVars, extractVars, classifyVars, convertVars>>

\* inject_dbt_macros(categorized): the pre-pass, then every file rewritten
InjectDbtMacros ==
    /\ pc = "sources_written"
    /\ \E canonical_names \in canonical_names_choices(categorized) :
          disk' = inject_files(categorized, canonical_names, disk, 1)
    /\ pc' = "injected"
    /\ UNCHANGED <<sources_yml, model_refs_yml, nameVars, extractVars, classifyVars, convertVars>>

NextInject == ExtractSources \/ InjectDbtMacros

SpecInject == InitInject /\ [][NextInject]_vars

-----------------------------------------------------------------------------
(* SpecRewrite: inject_dbt_macros on one model and its file, after         *)
(* extract_sources has run                                                 *)

InitRewrite ==
    /\ pc = "sources_written"
    /\ \E n \in 0..MaxWords, case \in RewriteCases : \E words \in [1..n -> case.palette] :
          /\ categorized = <<[model_name |-> ModelNameAt(1),
                              output_path |-> ModelNameAt(1) \o SqlSuffix,
                              refs |-> case.refs,
                              sources |-> case.sources]>>
          /\ disk = [path \in {ModelNameAt(1) \o SqlSuffix} |-> TextOfWords(words)]
    /\ sources_yml = Written(extract_sources(categorized))
    /\ model_refs_yml = NoFile
    /\ results = <<>>
    /\ NamesIdle
    /\ ExtractIdle
    /\ ConvertIdle

NextRewrite == InjectDbtMacros

SpecRewrite == InitRewrite /\ [][NextRewrite]_vars

-----------------------------------------------------------------------------
(* SpecOverlap: inject_dbt_macros on one model whose refs overlap, and its *)
(* file                                                                    *)

InitOverlap ==
    /\ pc = "sources_written"
    /\ \E n \in 0..MaxWords, refs \in OverlapRefs : \E words \in [1..n -> OverlapWords] :
          /\ categorized = <<[model_name |-> ModelNameAt(1),
                              output_path |-> ModelNameAt(1) \o SqlSuffix,
                              refs |-> refs,
                              sources |-> <<>>]>>
          /\ disk = [path \in {ModelNameAt(1) \o SqlSuffix} |-> TextOfWords(words)]
    /\ sources_yml = Written(extract_sources(categorized))
    /\ model_refs_yml = NoFile
    /\ results = <<>>
    /\ NamesIdle
    /\ ExtractIdle
    /\ ConvertIdle

NextOverlap == InjectDbtMacros

SpecOverlap == InitOverlap /\ [][NextOverlap]_vars

-----------------------------------------------------------------------------
(* SpecTwice: inject_dbt_macros called twice on one categorized batch      *)

InitTwice ==
    /\ pc = "sources_written"
    /\ \E n \in 1..MaxModels, t \in 0..MaxTwiceSources, shared \in BOOLEAN :
         \E refs \in [1..n -> InjectRefs],
            flat \in [1..t -> InjectSources], owner \in [1..t -> 1..n] :
             /\ \A j \in 1..t : j > 1 => owner[j - 1] <= owner[j]
             /\ shared => n > 1
             /\ categorized = TwiceCategorized(refs, flat, owner, shared)
             /\ \A i \in 1..n : NoDuplicates(categorized[i].sources)
             /\ disk = TwiceDisk(categorized)
    /\ sources_yml = Written(extract_sources(categorized))
    /\ model_refs_yml = NoFile
    /\ results = <<>>
    /\ NamesIdle
    /\ ExtractIdle
    /\ ConvertIdle

\* inject_dbt_macros(categorized), called again
InjectDbtMacrosAgain ==
    /\ pc = "injected"
    /\ \E canonical_names \in canonical_names_choices(categorized) :
          disk' = inject_files(categorized, canonical_names, disk, 1)
    /\ pc' = "injected_twice"
    /\ UNCHANGED <<sources_yml, model_refs_yml, nameVars, extractVars, classifyVars, convertVars>>

NextTwice == InjectDbtMacros \/ InjectDbtMacrosAgain

SpecTwice == InitTwice /\ [][NextTwice]_vars

-----------------------------------------------------------------------------
(* SpecRefsFile: extract_refs on every categorized batch                   *)

InitRefsFile ==
    /\ pc = "categorized"
    /\ \E n \in 0..MaxModels :
         \E lens \in [1..n -> 0..MaxDepends] :
            \E refs \in [1..n -> UNION {[1..m -> DependsNames] : m \in 0..MaxDepends}] :
               /\ \A i \in 1..n : Len(refs[i]) = lens[i]
               /\ categorized = [i \in 1..n |->
                                    [model_name |-> ModelNameAt(i),
                                     output_path |-> ModelNameAt(i) \o SqlSuffix,
                                     refs |-> refs[i],
                                     sources |-> <<>>]]
    /\ model_refs_yml \in {NoFile, StaleRefsFile}
    /\ disk = <<>>
    /\ sources_yml = NoFile
    /\ results = <<>>
    /\ NamesIdle
    /\ ExtractIdle
    /\ ConvertIdle

\* extract_refs(categorized, output_dir)
ExtractRefs ==
    /\ pc = "categorized"
    /\ model_refs_yml' = extract_refs(categorized, model_refs_yml)
    /\ pc' = "refs_written"
    /\ UNCHANGED <<disk, sources_yml, nameVars, extractVars, classifyVars, convertVars>>

NextRefsFile == ExtractRefs

SpecRefsFile == InitRefsFile /\ [][NextRefsFile]_vars

-----------------------------------------------------------------------------
(* SpecExtract: extract_table_references on every parsed input             *)

InitExtract ==
    /\ pc = "sql"
    /\ \/ parsed = NoParse
       \/ \E n \in 0..MaxStatements, t \in 0..MaxNodes :
            \E kinds \in [1..n -> StatementKinds], flat \in [1..t -> TableNodes],
               owner \in [1..t -> 1..n] :
                /\ \A j \in 1..t : j > 1 => owner[j - 1] <= owner[j]
                /\ \A j \in 1..t : ~kinds[owner[j]].none
                /\ parsed = [raises |-> FALSE,
                             statements |-> BuildStatements(kinds, flat, owner)]
    /\ extracted = <<>>
    /\ NamesIdle
    /\ ClassifyIdle
    /\ ConvertIdle
    /\ OutputIdle

\* extract_table_references(sql)
ExtractTableReferences ==
    /\ pc = "sql"
    /\ extracted' = extract_table_references(parsed)
    /\ pc' = "extracted"
    /\ UNCHANGED <<parsed, nameVars, classifyVars, convertVars, outputVars>>

NextExtract == ExtractTableReferences

SpecExtract == InitExtract /\ [][NextExtract]_vars

-----------------------------------------------------------------------------
(* C1 .. C6: the Reference Classifier                                      *)

\* the match key of a reference: lowercased, BASE-stripped table name
MatchKey(t) == lower(strip_base_suffix(t.table))

\* the lowercased model names of the batch
BatchKeys == {lower(results[i].model_name) : i \in DOMAIN results}

\* the lowercased (database, schema) pairs of the qualified references to a
\* match key, anywhere in the batch
PairsFor(key) ==
    {<<lower(t.database), lower(t.schema)>> :
        t \in {t2 \in UNION {Range(results[i].table_refs) : i \in DOMAIN results} :
                  MatchKey(t2) = key /\ (t2.database # <<>> \/ t2.schema # <<>>)}}

\* the elements of s at the indices where keep is TRUE, in order
RECURSIVE Kept(_, _, _)
Kept(s, keep, i) ==
    IF i > Len(s) THEN <<>>
    ELSE (IF keep[i] THEN <<s[i]>> ELSE <<>>) \o Kept(s, keep, i + 1)

Classified == pc = "categorized" /\ Len(categorized) = Len(results)

\* C1: every TableRef of a result is placed in exactly one of refs and
\* sources: some split of table_refs puts the one part, in order, into sources
\* and the other part, one model name of the same match key per reference and
\* in order, into refs; so len(refs) + len(sources) = len(table_refs).
C1_Coverage ==
    Classified =>
        \A k \in DOMAIN results :
            LET trs == results[k].table_refs
                c == categorized[k]
            IN  /\ Len(c.refs) + Len(c.sources) = Len(trs)
                /\ \E is_ref \in [DOMAIN trs -> BOOLEAN] :
                      /\ c.sources = Kept(trs, [i \in DOMAIN trs |-> ~is_ref[i]], 1)
                      /\ [j \in DOMAIN c.refs |-> lower(c.refs[j])]
                            = Kept([i \in DOMAIN trs |-> MatchKey(trs[i])], is_ref, 1)

\* a result with a ref between two sources has been classified
C1_Witness ==
    /\ Classified
    /\ \E k \in DOMAIN results :
          /\ Len(categorized[k].refs) = 1
          /\ Len(categorized[k].sources) = 2
          /\ categorized[k].sources[1] = results[k].table_refs[1]
          /\ categorized[k].sources[2] = results[k].table_refs[3]

\* C2: a qualified reference whose match key names a model other than the
\* result's own is a ref exactly when all qualified references to that match
\* key in the batch carry one lowercased (database, schema) pair; with two or
\* more pairs every such reference is a source.
C2_QualifiedRule ==
    Classified =>
        \A k \in DOMAIN results :
            \A t \in Range(results[k].table_refs) :
                (/\ t.database # <<>> \/ t.schema # <<>>
                 /\ MatchKey(t) \in BatchKeys
                 /\ MatchKey(t) # lower(results[k].model_name))
                => ((t \notin Range(categorized[k].sources))
                        <=> (Cardinality(PairsFor(MatchKey(t))) = 1))

\* two references to one model qualified in two casings of one pair are refs
C2_Witness ==
    /\ Classified
    /\ \E k \in DOMAIN results :
          \E t1, t2 \in Range(results[k].table_refs) :
              /\ t1.database # t2.database
              /\ lower(t1.database) = lower(t2.database)
              /\ t1.database # <<>>
              /\ MatchKey(t1) = MatchKey(t2)
              /\ categorized[k].sources = <<>>
              /\ Len(categorized[k].refs) = 2

\* a model referenced under two different pairs: both references are sources
C2_WitnessConflict ==
    /\ Classified
    /\ \E k \in DOMAIN results :
          \E t \in Range(results[k].table_refs) :
              /\ MatchKey(t) \in BatchKeys
              /\ MatchKey(t) # lower(results[k].model_name)
              /\ Cardinality(PairsFor(MatchKey(t))) = 2
              /\ t \in Range(categorized[k].sources)

\* C3: an unqualified reference whose match key names another model of the
\* batch is a ref, whatever qualified references to that model exist: it is
\* not among the sources and the model's name is among the refs.
C3_UnqualifiedIsRef ==
    Classified =>
        \A k \in DOMAIN results :
            \A t \in Range(results[k].table_refs) :
                (/\ t.database = <<>> /\ t.schema = <<>>
                 /\ MatchKey(t) \in BatchKeys
                 /\ MatchKey(t) # lower(results[k].model_name))
                => /\ t \notin Range(categorized[k].sources)
                   /\ \E j \in DOMAIN categorized[k].refs :
                         lower(categorized[k].refs[j]) = MatchKey(t)

\* an unqualified reference to a model that is also referenced under two
\* conflicting qualifications has been classified as the only ref
C3_Witness ==
    /\ Classified
    /\ \E k \in DOMAIN results :
          \E t \in Range(results[k].table_refs) :
              /\ t.database = <<>> /\ t.schema = <<>>
              /\ MatchKey(t) \in BatchKeys
              /\ MatchKey(t) # lower(results[k].model_name)
              /\ Cardinality(PairsFor(MatchKey(t))) = 2
              /\ Len(categorized[k].refs) = 1
              /\ Len(categorized[k].sources) = 2

\* C4 (as claimed): a reference whose match key is no model name of the
\* batch, or equals the lowercased BASE-stripped form of the result's own
\* model name, is a source; no refs entry equals the own name ignoring case.
C4_SelfByMatchKey ==
    Classified =>
        \A k \in DOMAIN results :
            /\ \A t \in Range(results[k].table_refs) :
                  (\/ MatchKey(t) \notin BatchKeys
                   \/ MatchKey(t) = lower(strip_base_suffix(results[k].model_name)))
                  => t \in Range(categorized[k].sources)
            /\ \A j \in DOMAIN categorized[k].refs :
                  lower(categorized[k].refs[j]) # lower(results[k].model_name)

\* C4 (amended): a reference whose match key is no model name of the batch,
\* or equals the result's own lowercased model name, is a source; no refs
\* entry equals the own name ignoring case.
C4_SelfByName ==
    Classified =>
        \A k \in DOMAIN results :
            /\ \A t \in Range(results[k].table_refs) :
                  (\/ MatchKey(t) \notin BatchKeys
                   \/ MatchKey(t) = lower(results[k].model_name))
                  => t \in Range(categorized[k].sources)
            /\ \A j \in DOMAIN categorized[k].refs :
                  lower(categorized[k].refs[j]) # lower(results[k].model_name)

\* a model that references itself and another model: one source, one ref
C4_Witness ==
    /\ Classified
    /\ \E k \in DOMAIN results :
          \E t \in Range(results[k].table_refs) :
              /\ MatchKey(t) = lower(results[k].model_name)
              /\ categorized[k].sources = <<t>>
              /\ Len(categorized[k].refs) = 1

\* C5: one CategorizedRefs per ConversionResult, in order, with model_name
\* and output_path copied; a result without table references has empty refs
\* and sources (and an empty batch gives an empty list).
C5_OnePerResult ==
    pc = "categorized" =>
        /\ Len(categorized) = Len(results)
        /\ \A k \in DOMAIN results :
              /\ categorized[k].model_name = results[k].model_name
              /\ categorized[k].output_path = results[k].output_path
              /\ results[k].table_refs = <<>> =>
                    (categorized[k].refs = <<>> /\ categorized[k].sources = <<>>)

\* two results of different names, the first without references
C5_Witness ==
    /\ pc = "categorized"
    /\ Len(results) = 2
    /\ results[1].model_name # results[2].model_name
    /\ results[1].table_refs = <<>>
    /\ results[2].table_refs # <<>>
    /\ Len(categorized) = 2

\* C6: every refs entry is the model_name, in its own casing, of a result of
\* the batch whose lowercased name is the match key of a table reference of
\* the result; model a referencing table BBASE beside a model B has refs ["B"].
C6_OriginalCasing ==
    Classified =>
        /\ \A k \in DOMAIN results :
              \A j \in DOMAIN categorized[k].refs :
                  /\ \E i \in DOMAIN results :
                        categorized[k].refs[j] = results[i].model_name
                  /\ \E t \in Range(results[k].table_refs) :
                        MatchKey(t) = lower(categorized[k].refs[j])
        /\ (/\ Len(results) = 2
            /\ results[1].model_name = <<"a">>
            /\ results[2].model_name = <<"B">>
            /\ results[1].table_refs = <<TableRef(<<>>, <<>>, <<"B","B","A","S","E">>)>>)
           => categorized[1].refs = << <<"B">> >>

\* the example batch has been classified
C6_Witness ==
    /\ Classified
    /\ Len(results) = 2
    /\ results[1].model_name = <<"a">>
    /\ results[2].model_name = <<"B">>
    /\ results[1].table_refs = <<TableRef(<<>>, <<>>, <<"B","B","A","S","E">>)>>
    /\ categorized[1].refs = << <<"B">> >>

-----------------------------------------------------------------------------
(* C7 *)

\* C7 (as claimed): strip_legacy_suffix removes the last 4 characters only
\* when the name ends with the all-uppercase marker BASE, and returns every
\* other name unchanged (marker not at the tail, lowercase variant at the tail).
C7_StripOnlyUppercaseTail ==
    pc = "stripped" =>
        stripped = IF endswith(name, BASE)
                   THEN SubSeq(name, 1, Len(name) - 4)
                   ELSE name

-----------------------------------------------------------------------------
(* C8 *)

\* the files of the loop that convert_file has converted so far, in order
ConvertedFiles ==
    SelectSeq(SubSeq(sql_files, 1, file_index - 1), LAMBDA f : f.transpiles)

\* C8 (as claimed): every result's model_name is the last dot-separated
\* segment of the file's stem, BASE suffix stripped, in snake_case, and its
\* output file is <that name>.sql.
C8_SnakeCaseModelName ==
    pc \in {"convert", "main"} =>
        /\ Len(results) = Len(ConvertedFiles)
        /\ \A k \in DOMAIN results :
              LET expected == to_snake_case(strip_base_suffix(LastPart(ConvertedFiles[k].stem)))
              IN  /\ results[k].model_name = expected
                  /\ results[k].output_path = expected \o SqlSuffix
                  /\ results[k].output_path \in DOMAIN disk

-----------------------------------------------------------------------------
(* C9 *)

\* C9: to_snake_case is idempotent on identifiers over letters, digits and
\* underscore, and returns an input without upper-case letters unchanged.
C9_SnakeIdempotent ==
    /\ pc = "snake_twice" => snake_twice = snake
    /\ (pc = "snake" /\ name = lower(name)) => snake = name

\* an input with an acronym boundary and a word boundary has been converted twice
C9_Witness ==
    /\ pc = "snake_twice"
    /\ name = <<"P","P","d">>
    /\ snake = <<"p","_","p","d">>

-----------------------------------------------------------------------------
(* C10 *)

\* text holds part as a substring
Contains(text, part) ==
    \E i \in 1..(Len(text) - Len(part) + 1) : SubSeq(text, i, i + Len(part) - 1) = part

\* the group name the rule gives a source
RuleGroupName(t) ==
    LET parts == SelectSeq(<<t.database, t.schema>>, LAMBDA p : p # <<>>)
    IN  IF parts = <<>> THEN UnknownSource
        ELSE IF Len(parts) = 1 THEN lower(parts[1])
        ELSE lower(parts[1] \o <<"_">> \o parts[2])

\* the table name the rule gives a table
RuleTableName(table) == IF is_mixed_case(table) THEN lower(table) ELSE table

\* C10: for a source without the BASE suffix, the group name is the
\* non-empty parts of (database, schema) joined by '_' and lowercased
\* ('unknown_source' when both are empty) and the table name is the
\* lowercased table name when it has mixed case and the table name unchanged
\* otherwise. The file of a model that has no refs and one source, mentioned
\* in the file, holds after inject_dbt_macros the placeholder with these two
\* names; sources.yml holds under the group name an entry with this table
\* name, which has the identifier, the original casing, exactly when the
\* table name has mixed case.
C10_SourceNaming ==
    /\ pc = "injected" =>
          \A k \in DOMAIN categorized :
              LET cat == categorized[k]
              IN  (/\ cat.refs = <<>>
                   /\ Len(cat.sources) = 1
                   /\ ~endswith(upper(cat.sources[1].table), BASE)
                   /\ cat.output_path \in DOMAIN disk)
                  => Contains(disk[cat.output_path],
                              source_macro(RuleGroupName(cat.sources[1]),
                                           RuleTableName(cat.sources[1].table)))
    /\ (pc \in {"sources_written", "injected"} /\ sources_yml.written) =>
          \A k \in DOMAIN categorized :
              \A s \in DOMAIN categorized[k].sources :
                  LET t == categorized[k].sources[s]
                  IN  ~endswith(upper(t.table), BASE) =>
                      \E g \in DOMAIN sources_yml.doc :
                          /\ sources_yml.doc[g].name = RuleGroupName(t)
                          /\ \E e \in DOMAIN sources_yml.doc[g].tables :
                                LET entry == sources_yml.doc[g].tables[e]
                                IN  /\ entry.name = RuleTableName(t.table)
                                    /\ entry.identifier =
                                          (IF is_mixed_case(t.table) THEN t.table ELSE NoStr)

-----------------------------------------------------------------------------
(* C11 *)

\* the models whose file exists and mentions sources only
SourceOnlyModels ==
    {k \in DOMAIN categorized :
        categorized[k].refs = <<>> /\ categorized[k].output_path \in DOMAIN disk}

\* the tables of the batch at the location of source t
TablesBeside(t) ==
    {u.table : u \in {v \in Range(all_sources(categorized)) :
                          v.database = t.database /\ v.schema = t.schema}}

\* the table names a placeholder can carry for a table called n
EmittedNames(n) == {n, lower(n), to_snake_case(n)}

\* C11: when a table with the BASE suffix and the table of the same name
\* without the suffix are sources at one (database, schema), in the files of
\* two models, the two files hold after inject_dbt_macros placeholders with
\* one and the same table name; a table with the suffix that has no table
\* without it at its location, in any casing, gets a placeholder with its
\* stripped name.
C11_BatchWideCanonical ==
    pc = "injected" =>
        \A k \in SourceOnlyModels : \A s \in DOMAIN categorized[k].sources :
            LET t == categorized[k].sources[s]
                own == SubSeq(t.table, 1, Len(t.table) - 4)
                group == RuleGroupName(t)
            IN  endswith(t.table, BASE) =>
                /\ \A j \in SourceOnlyModels \ {k} :
                      (categorized[j].sources = <<TableRef(t.database, t.schema, own)>>)
                          => \E n \in EmittedNames(own) :
                                /\ Contains(disk[categorized[k].output_path], source_macro(group, n))
                                /\ Contains(disk[categorized[j].output_path], source_macro(group, n))
                /\ (\A other \in TablesBeside(t) : endswith(other, BASE) \/ lower(other) # lower(own))
                      => \E n \in EmittedNames(own) :
                            Contains(disk[categorized[k].output_path], source_macro(group, n))

-----------------------------------------------------------------------------
(* C12 *)

\* s.split(sep): the parts of s between the occurrences of the character sep
RECURSIVE Split(_, _)
Split(s, sep) ==
    LET at == {i \in DOMAIN s : s[i] = sep}
    IN  IF at = {} THEN <<s>>
        ELSE LET i == CHOOSE x \in at : \A y \in at : x <= y
             IN  <<SubSeq(s, 1, i - 1)>> \o Split(SubSeq(s, i + 1, Len(s)), sep)

\* w is the name, or the name with the suffix, in any casing, alone or behind
\* one or two qualifiers
IsOccurrence(w, model_name) ==
    LET parts == Split(w, ".")
    IN  /\ Len(parts) <= 3
        /\ \A k \in DOMAIN parts :
              parts[k] # <<>> /\ \A i \in DOMAIN parts[k] : IsWordChar(parts[k][i])
        /\ lower(parts[Len(parts)]) \in {lower(model_name), lower(model_name \o BASE)}

\* the word without a closing "(", and that "(" if it has one
Stem(w) == IF w # <<>> /\ w[Len(w)] = "(" THEN SubSeq(w, 1, Len(w) - 1) ELSE w
Paren(w) == IF w # <<>> /\ w[Len(w)] = "(" THEN <<"(">> ELSE <<>>

\* the text a word becomes: the placeholder of the first ref it is an
\* occurrence of; with calls_too an occurrence before "(" is rewritten as well
RewrittenWord(w, next, refs, calls_too) ==
    LET hits == {r \in DOMAIN refs : IsOccurrence(Stem(w), refs[r])}
        call == Paren(w) # <<>> \/ (next # <<>> /\ next[1] = "(")
    IN  IF hits = {} \/ (call /\ ~calls_too) THEN w
        ELSE ref_macro(refs[CHOOSE r \in hits : \A q \in hits : r <= q]) \o Paren(w)

\* the text with every word rewritten
RewrittenText(text, refs, calls_too) ==
    LET words == Split(text, " ")
        out == [k \in DOMAIN words |->
                   RewrittenWord(words[k],
                                 IF k < Len(words) THEN words[k + 1] ELSE <<>>,
                                 refs, calls_too)]
        Joined[k \in 0..Len(words)] ==
            IF k = 0 THEN <<>>
            ELSE IF k = 1 THEN out[1]
            ELSE Joined[k - 1] \o <<" ">> \o out[k]
    IN  Joined[Len(words)]

\* the step that rewrites the file of a model that has refs and no sources
RefsRewritten(calls_too) ==
    \A k \in DOMAIN categorized :
        LET cat == categorized[k]
        IN  (cat.sources = <<>> /\ cat.refs # <<>> /\ cat.output_path \in DOMAIN disk)
            => disk'[cat.output_path] = RewrittenText(disk[cat.output_path], cat.refs, calls_too)

\* C12 as stated: inject_dbt_macros replaces every occurrence of a name of the
\* refs of a model, or of the name with the BASE suffix, three-part, two-part
\* or bare and in any casing, as a whole by one ref placeholder with the model
\* name, and leaves a longer word that contains the name untouched.
C12_EveryOccurrence == [][InjectDbtMacros => RefsRewritten(TRUE)]_vars

\* C12, amended: the same, except that an occurrence followed, after
\* optional blanks, by an opening parenthesis is left untouched.
C12_RefRewriting == [][InjectDbtMacros => RefsRewritten(FALSE)]_vars

C12_Witness ==
    /\ pc = "injected"
    /\ categorized[1].refs = <<<<"d","s">>, <<"P","d">>>>
    /\ disk[categorized[1].output_path] =
          <<"F"," ">> \o ref_macro(<<"d","s">>) \o <<" ">> \o ref_macro(<<"P","d">>)

-----------------------------------------------------------------------------
(* C13 *)

\* the forms of a source, most specific first: database.schema.table,
\* schema.table, table
SourceForms(t) ==
    (IF t.database # <<>> /\ t.schema # <<>>
     THEN <<t.database \o <<".">> \o t.schema \o <<".">> \o t.table>> ELSE <<>>)
    \o (IF t.schema # <<>> THEN <<t.schema \o <<".">> \o t.table>> ELSE <<>>)
    \o <<t.table>>

\* the word, up to a closing "(", ends with the form, in any casing, after a
\* dot or as a whole; the bare form, the last one, does not count before "("
EndsWithForm(w, next, forms, level) ==
    LET stem == Stem(w)
        form == forms[level]
        before == Len(stem) - Len(form)
    IN  /\ before >= 0
        /\ lower(SubSeq(stem, before + 1, Len(stem))) = lower(form)
        /\ (before = 0 \/ stem[before] = ".")
        /\ (level = Len(forms) =>
               ~(Paren(w) # <<>> \/ (next # <<>> /\ next[1] = "(")))

\* the text where the words that end with the form of the level hold the
\* placeholder in its place
WithPlaceholders(words, forms, level, macro) ==
    LET NextOf(k) == IF k < Len(words) THEN words[k + 1] ELSE <<>>
        out == [k \in DOMAIN words |->
                   IF level > 0 /\ EndsWithForm(words[k], NextOf(k), forms, level)
                   THEN SubSeq(words[k], 1, Len(Stem(words[k])) - Len(forms[level]))
                            \o macro \o Paren(words[k])
                   ELSE words[k]]
        Joined[k \in 0..Len(words)] ==
            IF k = 0 THEN <<>>
            ELSE IF k = 1 THEN out[1]
            ELSE Joined[k - 1] \o <<" ">> \o out[k]
    IN  Joined[Len(words)]

\* the most specific form some word of the text ends with, 0 when none does
FirstLevel(words, forms) ==
    LET NextOf(k) == IF k < Len(words) THEN words[k + 1] ELSE <<>>
        levels == {l \in DOMAIN forms :
                      \E k \in DOMAIN words : EndsWithForm(words[k], NextOf(k), forms, l)}
    IN  IF levels = {} THEN 0 ELSE CHOOSE l \in levels : \A m \in levels : l <= m

\* C13: inject_dbt_macros rewrites, for the source of a model, the
\* occurrences of one form only, the most specific of fully-qualified,
\* schema-qualified and bare that occurs in the text: all of them get the
\* placeholder, and the occurrences of the weaker forms stay as they are.
C13_MostSpecificForm ==
    [][InjectDbtMacros =>
        \A k \in DOMAIN categorized :
            LET cat == categorized[k]
            IN  (cat.refs = <<>> /\ Len(cat.sources) = 1 /\ cat.output_path \in DOMAIN disk)
                => LET words == Split(disk[cat.output_path], " ")
                       forms == SourceForms(cat.sources[1])
                   IN  \E n \in EmittedNames(cat.sources[1].table) :
                          disk'[cat.output_path] =
                              WithPlaceholders(words, forms, FirstLevel(words, forms),
                                  source_macro(RuleGroupName(cat.sources[1]), n))]_vars

\* the fully-qualified form is rewritten beside the two weaker forms
C13_Witness ==
    /\ pc = "injected"
    /\ categorized[1].sources = <<TableRef(<<"D">>, <<"x">>, <<"P","d","E","s">>)>>
    /\ \E n \in EmittedNames(<<"P","d","E","s">>) :
          disk[categorized[1].output_path] =
              <<"F"," ">> \o source_macro(<<"d","_","x">>, n)
                  \o <<" ","x",".","P","d","E","s">>

-----------------------------------------------------------------------------
(* C14 *)

\* C14: whatever files fail, convert_directory attempts every file of the
\* list and returns; results holds, in the order of the list, the
\* ConversionResult of each file that converted and nothing for a file that
\* failed; the pass over a file whose transpile step raises writes no file.
C14_PartialFailure ==
    /\ [](/\ Len(results) = Len(ConvertedFiles)
          /\ \A k \in DOMAIN results :
                results[k] = convert_file(ConvertedFiles[k], output_file_of(ConvertedFiles[k])))
    /\ [](pc # "convert" => file_index = Len(sql_files) + 1)
    /\ [][(ConvertFile /\ ~sql_files[file_index].transpiles)
              => (disk' = disk /\ results' = results /\ file_index' = file_index + 1)]_vars
    /\ <>(pc # "convert")

\* the first file failed, the second converted, and the loop has ended
C14_Witness ==
    /\ pc = "main"
    /\ Len(sql_files) = 2
    /\ ~sql_files[1].transpiles
    /\ sql_files[2].transpiles
    /\ Len(results) = 1
    /\ results[1].output_path = output_file_of(sql_files[2])
    /\ DOMAIN disk = {output_file_of(sql_files[2])}

-----------------------------------------------------------------------------
(* C15 *)

\* the start of a source placeholder, up to its table name
source_macro_open(source_name) ==
    <<"{","{"," ","s","o","u","r","c","e","(","'">> \o source_name \o <<"'",","," ","'">>

\* C15: when main has ended after converting at least one file, the file of
\* every model holds a ref placeholder for each of its refs and a source
\* placeholder for each of its sources.
C15_FilesRewritten ==
    pc = "done" =>
        \A k \in DOMAIN categorized :
            LET cat == categorized[k]
            IN  /\ cat.output_path \in DOMAIN disk
                /\ \A r \in DOMAIN cat.refs :
                      Contains(disk[cat.output_path], ref_macro(cat.refs[r]))
                /\ \A q \in DOMAIN cat.sources :
                      Contains(disk[cat.output_path],
                               source_macro_open(RuleGroupName(cat.sources[q])))

-----------------------------------------------------------------------------
(* C16 *)

\* C16: when convert_directory returns no result, main logs the warning and
\* ends: it does not classify and leaves sources.yml and model_refs.yml
\* unwritten; when it returns a result, the run writes sources.yml, with an
\* empty list of sources too.
C16_NoFilesNoMetadata ==
    /\ [](pc = "warned" =>
             results = <<>> /\ ~sources_yml.written /\ ~model_refs_yml.written)
    /\ [](pc \in {"extract_sources", "extract_refs", "done"} => results # <<>>)
    /\ [](pc \in {"extract_refs", "done"} => sources_yml.written)
    /\ [][(pc = "main" /\ results = <<>>)
             => (pc' = "warned" /\ UNCHANGED <<categorized, outputVars>>)]_vars
    /\ ((pc = "main" /\ results = <<>>) ~> pc = "warned")

\* a run that converted a file without references wrote an empty sources.yml
C16_Witness ==
    /\ pc = "done"
    /\ results # <<>>
    /\ sources_yml = Written(<<>>)

\* a run whose only file failed ended with the warning
C16_WitnessWarned ==
    /\ pc = "warned"
    /\ Len(sql_files) = 1
    /\ ~sources_yml.written

-----------------------------------------------------------------------------
(* C17 *)

\* the models of the batch that have refs, in batch order
ModelsWithRefs == SelectSeq(categorized, LAMBDA cat : cat.refs # <<>>)

\* b holds the entries of a, each as often, in ascending order
IsSortedOf(b, a) ==
    /\ Len(b) = Len(a)
    /\ \A x \in Range(a) \cup Range(b) :
          Cardinality({i \in DOMAIN a : a[i] = x}) = Cardinality({i \in DOMAIN b : b[i] = x})
    /\ \A i, j \in DOMAIN b : i < j => ~StrLess(b[j], b[i])

\* C17: extract_refs writes into model_refs.yml one entry for each model that
\* has refs, and for no other, in batch order, with the model's name and its
\* refs in ascending order; when no model has refs the call leaves
\* model_refs.yml as it was.
C17_ModelRefsFile ==
    [][ExtractRefs =>
         IF ModelsWithRefs = <<>> THEN model_refs_yml' = model_refs_yml
         ELSE /\ model_refs_yml'.written
              /\ Len(model_refs_yml'.doc) = Len(ModelsWithRefs)
              /\ \A k \in DOMAIN ModelsWithRefs :
                    /\ model_refs_yml'.doc[k].model = ModelsWithRefs[k].model_name
                    /\ IsSortedOf(model_refs_yml'.doc[k].depends_on, ModelsWithRefs[k].refs)]_vars

\* the second of two models has refs, and they were given in descending order
C17_Witness ==
    /\ pc = "refs_written"
    /\ Len(categorized) = 2
    /\ categorized[1].refs = <<>>
    /\ categorized[2].refs = <<<<"z","b">>, <<"B">>>>
    /\ model_refs_yml =
          Written(<<[model |-> ModelNameAt(2), depends_on |-> <<<<"B">>, <<"z","b">>>>]>>)

-----------------------------------------------------------------------------
(* C18 *)

Reverse(l) == [i \in DOMAIN l |-> l[Len(l) + 1 - i]]

\* the batch with the sources of every model in reverse order
SourcesReversed(cats) ==
    [i \in DOMAIN cats |-> [cats[i] EXCEPT !.sources = Reverse(cats[i].sources)]]

\* the same classified sources, supplied in another order
Reordered(cats) ==
    {Reverse(cats), SourcesReversed(cats), Reverse(SourcesReversed(cats))}

\* C18: the document of sources.yml is the same for every order of the
\* models and of their sources; its groups are in ascending order of the
\* lowercased (database, schema) and the entries of a group in ascending
\* order of their names.
C18_OrderDeterministic ==
    (pc \in {"sources_written", "injected"} /\ sources_yml.written) =>
        /\ \A other \in Reordered(categorized) : extract_sources(other) = sources_yml.doc
        /\ \A i, j \in DOMAIN sources_yml.doc :
              i < j => PairLess(<<lower(sources_yml.doc[i].database), lower(sources_yml.doc[i].schema)>>,
                                <<lower(sources_yml.doc[j].database), lower(sources_yml.doc[j].schema)>>)
        /\ \A g \in DOMAIN sources_yml.doc :
              \A i, j \in DOMAIN sources_yml.doc[g].tables :
                  i < j => StrLess(sources_yml.doc[g].tables[i].name,
                                   sources_yml.doc[g].tables[j].name)

-----------------------------------------------------------------------------
(* C19 *)

\* the statements of the input that are not None
Statements == {k \in DOMAIN parsed.statements : ~parsed.statements[k].none}

\* the lowercased CTE aliases of a statement, and of the whole input
AliasesOf(k) == {lower(a) : a \in Range(parsed.statements[k].ctes)}
AliasesOfInput == UNION {AliasesOf(k) : k \in Statements}

\* the exp.Table nodes of a statement
NodesOf(k) == Range(parsed.statements[k].tables)

\* C19 as stated: no returned reference has a lowercased name that is a CTE
\* alias of the input, and every table node whose name is not a CTE alias
\* of the input is returned.
C19_NoCteAlias ==
    pc = "extracted" =>
        /\ \A r \in Range(extracted) : lower(r.table) \notin AliasesOfInput
        /\ \A k \in Statements : \A node \in NodesOf(k) :
              lower(node.name) \notin AliasesOfInput => table_ref_of(node) \in Range(extracted)

\* C19, amended: every returned reference is a table node with a name, of a
\* statement that defines no CTE with that lowercased name, though a node of
\* that statement, qualified or not, may share the name of its CTE; and every
\* such node is returned.
C19_NoCteAliasOfStatement ==
    pc = "extracted" =>
        /\ \A r \in Range(extracted) :
              \E k \in Statements : \E node \in NodesOf(k) :
                  /\ table_ref_of(node) = r
                  /\ node.name # <<>>
                  /\ lower(node.name) \notin AliasesOf(k)
        /\ \A k \in Statements : \A node \in NodesOf(k) :
              (node.name # <<>> /\ lower(node.name) \notin AliasesOf(k))
                  => table_ref_of(node) \in Range(extracted)

\* a statement with the CTE C mentions c qualified and t: t alone is returned
C19_Witness ==
    /\ pc = "extracted"
    /\ Len(parsed.statements) = 1
    /\ parsed.statements[1].ctes = <<<<"C">>>>
    /\ parsed.statements[1].tables =
          <<TableNode(<<"D">>, <<"x">>, <<"c">>), TableNode(<<>>, <<>>, <<"t">>)>>
    /\ extracted = <<TableRef(<<>>, <<>>, <<"t">>)>>

-----------------------------------------------------------------------------
(* C20 *)

\* the places <<statement, node>> of the table nodes that make a reference
KeptPlaces ==
    {pl \in (1..MaxStatements) \X (1..MaxNodes) :
        /\ pl[1] \in Statements
        /\ pl[2] \in DOMAIN parsed.statements[pl[1]].tables
        /\ LET node == parsed.statements[pl[1]].tables[pl[2]]
           IN  node.name # <<>> /\ lower(node.name) \notin AliasesOf(pl[1])}

RefAt(pl) == table_ref_of(parsed.statements[pl[1]].tables[pl[2]])

Before(p1, p2) == p1[1] < p2[1] \/ (p1[1] = p2[1] /\ p1[2] < p2[2])

\* the place where a returned reference is first seen
FirstSeen(r) ==
    CHOOSE pl \in KeptPlaces :
        /\ RefAt(pl) = r
        /\ \A other \in KeptPlaces : RefAt(other) = r => (other = pl \/ Before(pl, other))

\* C20: the returned list holds no (database, schema, table) twice, whatever
\* statements the reference occurs in; it holds every reference made,
\* references differing in letter case or in qualification each under their
\* own entry; and its entries stand in the order they are first seen.
C20_DedupFirstSeen ==
    pc = "extracted" =>
        /\ \A i, j \in DOMAIN extracted : extracted[i] = extracted[j] => i = j
        /\ Range(extracted) = {RefAt(pl) : pl \in KeptPlaces}
        /\ \A i, j \in DOMAIN extracted :
              i < j => Before(FirstSeen(extracted[i]), FirstSeen(extracted[j]))

\* t, then T, then t again in a second statement: t and T, in that order
C20_Witness ==
    /\ pc = "extracted"
    /\ Len(parsed.statements) = 2
    /\ parsed.statements[1].tables =
          <<TableNode(<<>>, <<>>, <<"t">>), TableNode(<<>>, <<>>, <<"T">>)>>
    /\ parsed.statements[2].tables = <<TableNode(<<>>, <<>>, <<"t">>)>>
    /\ extracted = <<TableRef(<<>>, <<>>, <<"t">>), TableRef(<<>>, <<>>, <<"T">>)>>

-----------------------------------------------------------------------------
(* C21 *)

\* C21: when convert_directory has returned, the results lie at pairwise
\* different output paths and the output directory holds as many files as
\* there are results.
C21_OneOutputPerResult ==
    pc = "main" =>
        /\ \A i, j \in DOMAIN results :
              results[i].output_path = results[j].output_path => i = j
        /\ Cardinality(DOMAIN disk) = Len(results)

-----------------------------------------------------------------------------
(* C22 *)

\* the start of a ref placeholder
ref_macro_open == <<"{","{"," ","r","e","f","(","'">>

\* the indexes of text where part stands
PlacesOf(text, part) ==
    {i \in 1..(Len(text) - Len(part) + 1) : SubSeq(text, i, i + Len(part) - 1) = part}

\* C22: after inject_dbt_macros, wherever the file of a model with refs
\* holds the start of a ref placeholder, the whole placeholder ref('<name>')
\* of one of the refs of the model stands there, so that no placeholder lies
\* within another.
C22_NoNestedPlaceholder ==
    pc = "injected" =>
        \A k \in DOMAIN categorized :
            LET cat == categorized[k]
            IN  (cat.sources = <<>> /\ cat.output_path \in DOMAIN disk) =>
                    \A i \in PlacesOf(disk[cat.output_path], ref_macro_open) :
                        \E r \in DOMAIN cat.refs :
                            i \in PlacesOf(disk[cat.output_path], ref_macro(cat.refs[r]))

-----------------------------------------------------------------------------
(* C23 *)

\* the results of the files of the list that convert_file converts, in order
SuccessfulResults ==
    LET ok == SelectSeq(sql_files, LAMBDA f : f.transpiles)
    IN  [k \in DOMAIN ok |-> convert_file(ok[k], output_file_of(ok[k]))]

\* C23: categorize_refs is called only when every file of the list has been
\* converted or has failed, and it is handed the results of all the files
\* that were converted; once it has been called, and in every step after
\* convert_directory has returned, no file is converted: results, the
\* output files and the place in the list stay as they are.
C23_Barrier ==
    /\ [][MainCategorize =>
             (file_index > Len(sql_files) /\ results = SuccessfulResults)]_vars
    /\ [](pc # "convert" => file_index > Len(sql_files))
    /\ [](categorized # <<>> => pc \notin {"convert", "main"})
    /\ [][pc # "convert" =>
             (results' = results /\ disk' = disk /\ file_index' = file_index)]_vars

\* of two files the first has failed and the second was converted, and
\* classification has run on the one result
C23_Witness ==
    /\ pc = "extract_sources"
    /\ Len(sql_files) = 2
    /\ ~sql_files[1].transpiles
    /\ sql_files[2].transpiles
    /\ Len(results) = 1
    /\ Len(categorized) = 1
    /\ categorized[1].model_name = extract_model_name(sql_files[2].stem)

-----------------------------------------------------------------------------
(* C24 *)

\* the output directory with the file of every model of the batch
AllFiles == BuildDisk(categorized, [i \in DOMAIN categorized |-> TRUE])

\* C24: inject_dbt_macros creates no file; when the file of a model is
\* missing it stays missing, and every file there is ends with the text it
\* would get if no file of the batch were missing.
C24_MissingFileSkipped ==
    [][InjectDbtMacros =>
          /\ DOMAIN disk' = DOMAIN disk
          /\ DOMAIN disk # DOMAIN AllFiles =>
                \E canonical_names \in canonical_names_choices(categorized) :
                    LET full == inject_files(categorized, canonical_names, AllFiles, 1)
                    IN  \A path \in DOMAIN disk : disk'[path] = full[path]]_vars

\* the file of the first model is missing, that of the second was rewritten
\* with the placeholder of its source
C24_Witness ==
    /\ pc = "injected"
    /\ Len(categorized) = 2
    /\ categorized[1].output_path \notin DOMAIN disk
    /\ categorized[2].output_path \in DOMAIN disk
    /\ categorized[2].sources = <<TableRef(<<"D">>, <<"x">>, <<"P","d","E","s">>)>>
    /\ categorized[2].refs = <<>>
    /\ disk[categorized[2].output_path] =
          <<"F"," ">> \o source_macro(<<"d","_","x">>, <<"p","d","_","e","s">>)

-----------------------------------------------------------------------------
(* C25 *)

\* the text one pass of the loop of inject_dbt_macros makes of a file
OnePass(cat, canonical_names, sql) ==
    replace_sources(replace_refs(sql, cat.refs, 1), cat.sources, canonical_names, 1)

\* two models of one output path with the same refs and sources
SamePathTwins ==
    /\ Len(categorized) = 2
    /\ categorized[1] = categorized[2]

\* C25: a second call of inject_dbt_macros on the same batch leaves every
\* output file as the first call left it; and when two models with the same
\* refs and sources share an output path, the first call leaves the file as
\* one pass over it does.
C25_Idempotent ==
    /\ [][InjectDbtMacrosAgain => disk' = disk]_vars
    /\ [][(InjectDbtMacros /\ SamePathTwins) =>
             \E canonical_names \in canonical_names_choices(categorized) :
                 disk'[categorized[1].output_path] =
                     OnePass(categorized[1], canonical_names,
                             disk[categorized[1].output_path])]_vars

-----------------------------------------------------------------------------
(* C26 *)

\* no placeholder of the text opens within another
NoNesting(text) ==
    LET opens == PlacesOf(text, <<"{","{">>)
        closes == PlacesOf(text, <<"}","}">>)
    IN  \A i \in opens : \A j \in opens :
            i < j => \E c \in closes : i < c /\ c < j

\* the refs as ref placeholders, each after a blank
RECURSIVE RefPlaceholders(_)
RefPlaceholders(refs) ==
    IF refs = <<>> THEN <<>>
    ELSE RefPlaceholders(SubSeq(refs, 1, Len(refs) - 1))
             \o <<" ">> \o ref_macro(refs[Len(refs)])

\* C26: inject_dbt_macros leaves no placeholder within another in any
\* file; and the file of a model with one source, which mentions the source
\* fully written and then the refs of the model by their names, ends with
\* the source placeholder where the source stood and the ref placeholders
\* where the names stood.
C26_RespectsClassification ==
    [][InjectDbtMacros =>
          \A k \in DOMAIN categorized :
              LET cat == categorized[k]
              IN  cat.output_path \in DOMAIN disk =>
                      /\ NoNesting(disk'[cat.output_path])
                      /\ Len(cat.sources) = 1 =>
                            \E canonical_names \in canonical_names_choices(categorized) :
                                disk'[cat.output_path] =
                                    <<"F"," ">>
                                    \o source_macro(source_name_of(cat.sources[1]),
                                                    table_name_of(cat.sources[1], canonical_names))
                                    \o RefPlaceholders(cat.refs)]_vars

-----------------------------------------------------------------------------
(* C27 *)

\* sources.yml holds a group of that name with a table entry of that name
Declared(source_name, table_name) ==
    \E g \in DOMAIN sources_yml.doc :
        /\ sources_yml.doc[g].name = source_name
        /\ \E e \in DOMAIN sources_yml.doc[g].tables :
              sources_yml.doc[g].tables[e].name = table_name

\* C27: when extract_sources and inject_dbt_macros have run on a batch,
\* every source placeholder that stands in the file of a model for one of
\* its sources names a group and a table that sources.yml declares.
C27_PlaceholdersDeclared ==
    pc = "injected" =>
        \A k \in DOMAIN categorized :
            LET cat == categorized[k]
            IN  cat.output_path \in DOMAIN disk =>
                    \A s \in DOMAIN cat.sources :
                        \A canonical_names \in canonical_names_choices(categorized) :
                            LET source_name == source_name_of(cat.sources[s])
                                table_name == table_name_of(cat.sources[s], canonical_names)
                            IN  Contains(disk[cat.output_path],
                                         source_macro(source_name, table_name))
                                    => Declared(source_name, table_name)

====
